---- MODULE Spec2Model ----
(***************************************************************************)
(* A model of hashtable.c: a fixed array of HASHTABLE_NODE_COUNT bucket    *)
(* heads, each the head of a singly linked chain of hashtable_node_t.      *)
(* Memory is modelled explicitly: heap maps the address of every node that *)
(* malloc has returned to the node's fields, allocated is the set of node  *)
(* addresses not yet passed to free, ht_live says whether the hashtable_t  *)
(* block itself is still allocated.                                        *)
(*                                                                         *)
(* A C string is a sequence of non-zero bytes (the terminator is implicit: *)
(* CharAt reads it at position Len+1); a char[HASHTABLE_KEY_SIZE] field is *)
(* a sequence of exactly HASHTABLE_KEY_SIZE bytes.                         *)
(***************************************************************************)
EXTENDS Integers, Sequences, FiniteSets, TLC

\* src/hashtable.c:38-39
HASHTABLE_NODE_COUNT == 100
HASHTABLE_KEY_SIZE == 32

\* The null pointer; node addresses are 1, 2, ...
NULL == 0

\* malloc returns at most MaxNodes nodes before it only fails; MaxChain nodes
\* where all keys share a bucket.
MaxNodes == 3
MaxChain == 4

Addr == 1..MaxNodes

(***************************************************************************)
(* The keys and values the operations are called with.                     *)
(***************************************************************************)
Rep(n, c) == [i \in 1..n |-> c]

Key_eric == <<101, 114, 105, 99>>
Key_erhd == <<101, 114, 104, 100>>
Key_john == <<106, 111, 104, 110>>
Key_missing == <<109, 105, 115, 115, 105, 110, 103>>
Key_rice == <<114, 105, 99, 101>>

\* "eg" and "ge": anagrams, byte sum 204, bucket 4.  "h": bucket 4 as well.
Key_eg == <<101, 103>>
Key_ge == <<103, 101>>
Key_h == <<104>>
\* "ff": byte sum 204 as well.
Key_ff == <<102, 102>>
\* K-1 times 'a': the longest key shorter than K, bucket 7.
Key_a31 == Rep(HASHTABLE_KEY_SIZE - 1, 97)
\* K times 'a' and K+1 times 'a': the same first K bytes, bucket 4.
Key_a32 == Rep(HASHTABLE_KEY_SIZE, 97)
Key_a33 == Rep(HASHTABLE_KEY_SIZE + 1, 97)

\* The keys hashtable_set is called with, and those hashtable_get is.
Keys == {Key_eg, Key_ge, Key_a31, Key_a32}
GetKeys == Keys \cup {Key_h, Key_a33}
Values == {0, 1}

\* main(): "eric" and "erhd" share bucket 19, "john" is in bucket 31.
MainKeys == {Key_eric, Key_erhd, Key_john}
MainGetKeys == MainKeys \cup {Key_missing, Key_rice}
MainValues == {111, 222, 333}

\* Calls whose keys all hash to bucket 4: four short keys and one key of
\* HASHTABLE_KEY_SIZE bytes, one value.
ChainKeys == {Key_eg, Key_ge, Key_h, Key_ff, Key_a32}
ChainValues == {1}

AllKeys == GetKeys \cup MainGetKeys \cup ChainKeys

(***************************************************************************)
(* <string.h>                                                              *)
(***************************************************************************)
\* s[i] for a C string s, 1-based; the terminator sits at Len(s)+1.
CharAt(s, i) == IF i <= Len(s) THEN s[i] ELSE 0

Min(a, b) == IF a <= b THEN a ELSE b

\* strnlen(s, n)
strnlen(s, n) == Min(Len(s), n)

\* strncpy(dst, src, n): the first n bytes of src, zero padded to n bytes;
\* no terminator is written when src has n or more bytes.
strncpy(src, n) == [i \in 1..n |-> CharAt(src, i)]

\* strncmp(a, s, n) == 0 for a char[n] field a and a C string s: compares byte
\* by byte from position i, stops at the first difference, after a
\* terminator, or after n bytes.
RECURSIVE strncmp_eq(_, _, _, _)
strncmp_eq(a, s, i, n) ==
    IF i > n THEN TRUE
    ELSE IF a[i] # CharAt(s, i) THEN FALSE
    ELSE IF a[i] = 0 THEN TRUE
    ELSE strncmp_eq(a, s, i + 1, n)

\* a % b as C computes it (truncation towards zero), b > 0.
CRem(a, b) == IF a >= 0 THEN a % b ELSE 0 - ((0 - a) % b)

VARIABLES
    array,      \* ht->array: bucket index -> address of the head node or NULL
    heap,       \* address -> [next, key, value] of every node malloc returned
    allocated,  \* the node addresses malloc returned and free has not got
    ht_live,    \* the hashtable_t block is allocated
    sets,       \* history: the <<key, value>> of every hashtable_set that returned 0
    last,       \* the last call: [op, key, value, ret]
    frame       \* the locals of the call in progress: [pc, key, value, hash,
                \* current, node]; pc is "idle" when no call is in progress

vars == <<array, heap, allocated, ht_live, sets, last, frame>>

\* No call is in progress.
NoFrame == [pc |-> "idle", key |-> <<>>, value |-> 0, hash |-> 0,
            current |-> NULL, node |-> NULL]

(***************************************************************************)
(* hashtable_node_t                                                        *)
(***************************************************************************)
\* hashtable_node_insert with the store into the last node's link left out:
\* the walk ends and the child is never attached.
hashtable_node_insert_unlinked(h, parent, child) ==
    IF h[parent].next = NULL
    THEN h
    ELSE [h EXCEPT ![child].next = NULL]

\* hashtable_node_insert linking the child right behind the parent instead of
\* behind the last node of the chain.
hashtable_node_insert_after_parent(h, parent, child) ==
    LET h1 == [h EXCEPT ![child].next = h[parent].next]
    IN  [h1 EXCEPT ![parent].next = child]

\* hashtable_node_insert with line 55 writing the parent instead of NULL into
\* the child's link.
RECURSIVE chain_last_of(_, _)
chain_last_of(h, current) ==
    IF h[current].next # NULL THEN chain_last_of(h, h[current].next) ELSE current

hashtable_node_insert_linked_back(h, parent, child) ==
    IF h[parent].next = NULL
    THEN [h EXCEPT ![parent].next = child]
    ELSE LET current == chain_last_of(h, h[parent].next)
             h1 == [h EXCEPT ![current].next = child]
         IN  [h1 EXCEPT ![child].next = parent]

\* hashtable_node_insert(parent, child): the heap after the call.
RECURSIVE chain_last(_, _)
chain_last(h, current) ==
    IF h[current].next # NULL THEN chain_last(h, h[current].next) ELSE current

hashtable_node_insert(h, parent, child) ==
    IF h[parent].next = NULL
    THEN [h EXCEPT ![parent].next = child]
    ELSE LET current == chain_last(h, h[parent].next)
             h1 == [h EXCEPT ![current].next = child]
         IN  [h1 EXCEPT ![child].next = NULL]

\* hashtable_node_find_by_key(node, key): the address found, or NULL.
RECURSIVE find_loop(_, _, _)
find_loop(h, current, key) ==
    IF current = NULL THEN NULL
    ELSE IF strncmp_eq(h[current].key, key, 1, HASHTABLE_KEY_SIZE) THEN current
    ELSE find_loop(h, h[current].next, key)

\* hashtable_node_find_by_key without the loop: only the node it is given
\* is compared.
hashtable_node_find_by_key_first(h, node, key) ==
    IF strnlen(key, HASHTABLE_KEY_SIZE) >= HASHTABLE_KEY_SIZE
    THEN NULL
    ELSE IF node # NULL /\ strncmp_eq(h[node].key, key, 1, HASHTABLE_KEY_SIZE)
         THEN node
         ELSE NULL

\* hashtable_node_find_by_key with the test of line 64 inverted (strncmp
\* without the !): the first node whose key differs is returned.
RECURSIVE find_loop_inverted(_, _, _)
find_loop_inverted(h, current, key) ==
    IF current = NULL THEN NULL
    ELSE IF ~strncmp_eq(h[current].key, key, 1, HASHTABLE_KEY_SIZE) THEN current
    ELSE find_loop_inverted(h, h[current].next, key)

hashtable_node_find_by_key_inverted(h, node, key) ==
    IF strnlen(key, HASHTABLE_KEY_SIZE) >= HASHTABLE_KEY_SIZE
    THEN NULL
    ELSE find_loop_inverted(h, node, key)

\* hashtable_node_find_by_key without the length check of line 59.
hashtable_node_find_by_key_unchecked(h, node, key) == find_loop(h, node, key)

hashtable_node_find_by_key(h, node, key) ==
    IF strnlen(key, HASHTABLE_KEY_SIZE) >= HASHTABLE_KEY_SIZE
    THEN NULL
    ELSE find_loop(h, node, key)

\* hashtable_node_create storing at most HASHTABLE_KEY_SIZE - 1 bytes of the
\* key and a terminator in the last byte.
hashtable_node_create_truncated(key, value) ==
    [next |-> NULL, value |-> value,
     key |-> [i \in 1..HASHTABLE_KEY_SIZE |->
                IF i < HASHTABLE_KEY_SIZE THEN CharAt(key, i) ELSE 0]]

\* The fields hashtable_node_create(key, value) writes into the new node.
hashtable_node_create(key, value) ==
    [next |-> NULL, value |-> value, key |-> strncpy(key, HASHTABLE_KEY_SIZE)]

\* malloc(sizeof(hashtable_node_t)): NULL, or an address not yet in use.
\* No node is ever freed, so the addresses are handed out in order.
malloc_upto(h, max) ==
    {NULL} \cup {a \in 1..max : a = Cardinality(DOMAIN h) + 1}

malloc_node(h) == malloc_upto(h, MaxNodes)

(***************************************************************************)
(* hashtable_t                                                             *)
(***************************************************************************)
\* calculate_hash(key): for(i = 0; key[i] && i < K; ++i) sum += key[i];
RECURSIVE hash_loop(_, _, _)
hash_loop(key, i, sum) ==
    IF CharAt(key, i + 1) # 0 /\ i < HASHTABLE_KEY_SIZE
    THEN hash_loop(key, i + 1, sum + CharAt(key, i + 1))
    ELSE sum

\* calculate_hash without the bound i < HASHTABLE_KEY_SIZE: every byte of the
\* key is summed.
RECURSIVE hash_loop_unbounded(_, _, _)
hash_loop_unbounded(key, i, sum) ==
    IF CharAt(key, i + 1) # 0
    THEN hash_loop_unbounded(key, i + 1, sum + CharAt(key, i + 1))
    ELSE sum

calculate_hash_unbounded(key) ==
    CRem(hash_loop_unbounded(key, 0, 0), HASHTABLE_NODE_COUNT)

calculate_hash(key) == CRem(hash_loop(key, 0, 0), HASHTABLE_NODE_COUNT)

\* calculate_hash tabulated over the keys in use, so that the loop is run once
\* for each key.
hash_of == [key \in AllKeys |-> calculate_hash(key)]

\* hashtable_get(ht, key)
RECURSIVE get_loop(_, _, _)
get_loop(h, current, key) ==
    IF current = NULL THEN 0
    ELSE IF strncmp_eq(h[current].key, key, 1, HASHTABLE_KEY_SIZE)
         THEN h[current].value
         ELSE get_loop(h, h[current].next, key)

hashtable_get(arr, h, key) == get_loop(h, arr[hash_of[key]], key)

\* hashtable_set(ht, key, value), lines 152-167: what the call does once
\* hashtable_node_create has returned the node at address node; hash is the
\* local variable of line 145.
hashtable_set_node(arr, h, al, hash, key, value, node) ==
    LET h1 == (node :> hashtable_node_create(key, value)) @@ h
        al1 == al \cup {node}
    IN  IF arr[hash] = NULL
        THEN [array |-> [arr EXCEPT ![hash] = node], heap |-> h1,
              allocated |-> al1, ret |-> 0]
        ELSE LET found == hashtable_node_find_by_key(h1, arr[hash], key) IN
             IF found = NULL
             THEN [array |-> arr,
                   heap |-> hashtable_node_insert(h1, arr[hash], node),
                   allocated |-> al1, ret |-> 0]
             ELSE [array |-> arr,
                   heap |-> [h1 EXCEPT ![found].value = value],
                   allocated |-> al1, ret |-> 0]

\* hashtable_set with the node stored into the bucket before it is tested:
\* on an allocation failure the bucket head is overwritten with NULL.
hashtable_set_store_first(arr, h, al, hash, key, value, node) ==
    IF node = NULL
    THEN [array |-> [arr EXCEPT ![hash] = node], heap |-> h,
          allocated |-> al, ret |-> 0 - 1]
    ELSE hashtable_set_node(arr, h, al, hash, key, value, node)

\* hashtable_set(ht, key, value) from line 146 on, when calculate_hash
\* returned hash and malloc returned node (NULL: out of memory): the table,
\* the heap and the allocated set after the call, and the value returned.
hashtable_set(arr, h, al, hash, key, value, node) ==
    IF node = NULL
    THEN [array |-> arr, heap |-> h, allocated |-> al, ret |-> 0 - 1]
    ELSE hashtable_set_node(arr, h, al, hash, key, value, node)

\* hashtable_destroy(ht): free(ht) and nothing else.
hashtable_destroy(al) == [allocated |-> al, ht_live |-> FALSE]

(***************************************************************************)
(* The state machine: the table after hashtable_create, then any calls of  *)
(* hashtable_set and hashtable_get, then hashtable_destroy.                *)
(***************************************************************************)
Init ==
    /\ array = [i \in 0..(HASHTABLE_NODE_COUNT - 1) |-> NULL]
    /\ heap = <<>>
    /\ allocated = {}
    /\ ht_live = TRUE
    /\ sets = <<>>
    /\ last = [op |-> "create", key |-> <<>>, value |-> 0, ret |-> 0]
    /\ frame = NoFrame

\* hashtable_set(ht, key, value), malloc returning one of nodes.
SetCallWith(key, value, nodes) ==
    /\ ht_live
    /\ \E hash \in {hash_of[key]}, node \in nodes :
       \E r \in {hashtable_set(array, heap, allocated, hash, key, value, node)} :
         /\ array' = r.array
         /\ heap' = r.heap
         /\ allocated' = r.allocated
         /\ sets' = IF r.ret = 0 THEN Append(sets, <<key, value>>) ELSE sets
         /\ last' = [op |-> "set", key |-> key, value |-> value, ret |-> r.ret]
    /\ UNCHANGED <<ht_live, frame>>

SetCall(key, value) == SetCallWith(key, value, malloc_node(heap))

GetCall(key) ==
    /\ ht_live
    /\ last' = [op |-> "get", key |-> key, value |-> 0,
                ret |-> hashtable_get(array, heap, key)]
    /\ UNCHANGED <<array, heap, allocated, ht_live, sets, frame>>

Destroy ==
    /\ ht_live
    /\ LET r == hashtable_destroy(allocated) IN
         /\ allocated' = r.allocated
         /\ ht_live' = r.ht_live
    /\ last' = [op |-> "destroy", key |-> <<>>, value |-> 0, ret |-> 0]
    /\ UNCHANGED <<array, heap, sets, frame>>

Set == \E key \in Keys, value \in Values : SetCall(key, value)
Get == \E key \in GetKeys : GetCall(key)

Next == Set \/ Get \/ Destroy

Spec == Init /\ [][Next]_vars

\* main()'s keys and values: "eric", "erhd", "john" and the values 111, 222, 333.
MainSet == \E key \in MainKeys, value \in MainValues : SetCall(key, value)
MainGet == \E key \in MainGetKeys : GetCall(key)

MainNext == MainSet \/ MainGet \/ Destroy

SpecMain == Init /\ [][MainNext]_vars

\* Calls whose keys all hash to one bucket, with up to MaxChain nodes.
ChainSet ==
    \E key \in ChainKeys, value \in ChainValues :
        SetCallWith(key, value, malloc_upto(heap, MaxChain))
ChainGet == \E key \in ChainKeys : GetCall(key)

ChainNext == ChainSet \/ ChainGet \/ Destroy

SpecChain == Init /\ [][ChainNext]_vars

(***************************************************************************)
(* calculate_hash on keys with arbitrary bytes.  The bytes of a key are    *)
(* read through a char *: whether a byte of 0x80 or more is read as a      *)
(* negative number is up to the build (char signed or unsigned), so both   *)
(* builds are drawn.                                                       *)
(***************************************************************************)
\* Keys of up to MaxByteLen bytes.
MaxByteLen == 2
ByteValues == {1, 97, 127, 128, 200, 255}
ByteKeys == UNION {[1..n -> ByteValues] : n \in 1..MaxByteLen}

\* The value of key[i] in the expression sum += key[i] for the byte b.
CharOf(b, signed) == IF signed /\ b >= 128 THEN b - 256 ELSE b

InitChar ==
    /\ array = [i \in 0..(HASHTABLE_NODE_COUNT - 1) |-> NULL]
    /\ heap = <<>>
    /\ allocated = {}
    /\ ht_live = TRUE
    /\ sets = <<>>
    /\ frame = NoFrame
    /\ \E bytes \in ByteKeys, signed \in BOOLEAN :
         last = [op |-> IF signed THEN "signed_char" ELSE "unsigned_char",
                 key |-> [i \in DOMAIN bytes |-> CharOf(bytes[i], signed)],
                 value |-> 0, ret |-> 0]

\* int hash = calculate_hash(key), the first statement of hashtable_get and
\* of hashtable_set.
CalcHash ==
    /\ last.op \in {"signed_char", "unsigned_char"}
    /\ last' = [op |-> "hash", key |-> last.key, value |-> 0,
                ret |-> calculate_hash(last.key)]
    /\ UNCHANGED <<array, heap, allocated, ht_live, sets, frame>>

NextChar == CalcHash

SpecChar == InitChar /\ [][NextChar]_vars

(***************************************************************************)
(* hashtable_node_insert on its own: a terminated chain of 1..MaxInsert    *)
(* nodes behind a bucket head, and a child node outside it whose next is   *)
(* NULL or points at any node.                                             *)
(***************************************************************************)
MaxInsert == 3

\* The keys of the chain's nodes, in order, and the key of the child.
InsertKeys == <<Key_eg, Key_ge, Key_h, Key_a32>>
InsertChildKey == Key_ff

InitInsert ==
    \E n \in 1..MaxInsert :
    \E vals \in [1..(n + 1) -> Values], stale \in 0..(n + 1) :
        /\ array = [i \in 0..(HASHTABLE_NODE_COUNT - 1) |->
                      IF i = hash_of[InsertChildKey] THEN 1 ELSE NULL]
        /\ heap = [a \in 1..(n + 1) |->
                     IF a <= n
                     THEN [next |-> IF a < n THEN a + 1 ELSE NULL,
                           value |-> vals[a],
                           key |-> strncpy(InsertKeys[((a - 1) % Len(InsertKeys)) + 1],
                                           HASHTABLE_KEY_SIZE)]
                     ELSE [next |-> stale,
                           value |-> vals[a],
                           key |-> strncpy(InsertChildKey, HASHTABLE_KEY_SIZE)]]
        /\ allocated = 1..(n + 1)
        /\ ht_live = TRUE
        /\ sets = <<>>
        /\ frame = NoFrame
        /\ last = [op |-> "node", key |-> InsertChildKey, value |-> vals[n + 1],
                   ret |-> n + 1]

\* hashtable_node_insert(ht->array[hash], node) for the child node.
InsertCall ==
    /\ last.op = "node"
    /\ heap' = hashtable_node_insert(heap, array[hash_of[last.key]], last.ret)
    /\ last' = [last EXCEPT !.op = "insert"]
    /\ UNCHANGED <<array, allocated, ht_live, sets, frame>>

NextInsert == InsertCall

SpecInsert == InitInsert /\ [][NextInsert]_vars

(***************************************************************************)
(* The calls statement by statement: one step for each evaluation of a     *)
(* loop condition with the loop body or the exit that follows it.  frame   *)
(* holds the locals of the call in progress; a call that needs no loop     *)
(* returns in the step that starts it.                                     *)
(***************************************************************************)
StepKeys == {Key_eg, Key_ge, Key_ff, Key_a32}
StepGetKeys == StepKeys \cup {Key_h, Key_a33}

\* A call has started: until it returns, last names it without a result.
Started(op, key, value) == [op |-> op, key |-> key, value |-> value, ret |-> 0]

\* return from hashtable_get or hashtable_set with the value ret.
Return(op, ret) ==
    /\ last' = [op |-> op, key |-> frame.key, value |-> frame.value, ret |-> ret]
    /\ sets' = IF op = "set" /\ ret = 0
               THEN Append(sets, <<frame.key, frame.value>>) ELSE sets
    /\ frame' = NoFrame

\* hashtable_node_insert, lines 54-55, with child->next = current: the child
\* points back at the node it was appended to.
insert_store_back(h, current, child) ==
    [h EXCEPT ![current].next = child, ![child].next = current]

\* hashtable_node_insert, lines 54-55: current->next = child; child->next = NULL.
insert_store(h, current, child) ==
    [h EXCEPT ![current].next = child, ![child].next = NULL]

\* hashtable_get, lines 131-132: the hash and the initialisation of the loop.
StepGetCall(key) ==
    /\ ht_live
    /\ frame.pc = "idle"
    /\ frame' = [pc |-> "get", key |-> key, value |-> 0, hash |-> hash_of[key],
                 current |-> array[hash_of[key]], node |-> NULL]
    /\ last' = Started("get_call", key, 0)
    /\ UNCHANGED <<array, heap, allocated, ht_live, sets>>

\* hashtable_get, lines 132-141: one test of current != NULL, then return 0,
\* return current->value, or current = current->next.
GetLoop ==
    /\ frame.pc = "get"
    /\ IF frame.current = NULL
       THEN Return("get", 0)
       ELSE IF strncmp_eq(heap[frame.current].key, frame.key, 1, HASHTABLE_KEY_SIZE)
            THEN Return("get", heap[frame.current].value)
            ELSE /\ frame' = [frame EXCEPT !.current = heap[frame.current].next]
                 /\ UNCHANGED <<sets, last>>
    /\ UNCHANGED <<array, heap, allocated, ht_live>>

\* hashtable_set, lines 145-165, up to the first loop: the hash, the new
\* node, the return of -1, the store into an empty bucket, and the length
\* test of hashtable_node_find_by_key (line 59).
StepSetCall(key, value) ==
    /\ ht_live
    /\ frame.pc = "idle"
    /\ \E hash \in {hash_of[key]}, node \in malloc_upto(heap, MaxChain) :
         IF node = NULL
         THEN /\ last' = [op |-> "set", key |-> key, value |-> value, ret |-> 0 - 1]
              /\ UNCHANGED <<array, heap, allocated, sets, frame>>
         ELSE /\ heap' = (node :> hashtable_node_create(key, value)) @@ heap
              /\ allocated' = allocated \cup {node}
              /\ IF array[hash] = NULL
                 THEN /\ array' = [array EXCEPT ![hash] = node]
                      /\ last' = [op |-> "set", key |-> key, value |-> value,
                                  ret |-> 0]
                      /\ sets' = Append(sets, <<key, value>>)
                      /\ UNCHANGED frame
                 ELSE /\ frame' = [pc |-> IF strnlen(key, HASHTABLE_KEY_SIZE)
                                             >= HASHTABLE_KEY_SIZE
                                          THEN "insert" ELSE "find",
                                   key |-> key, value |-> value, hash |-> hash,
                                   current |-> array[hash], node |-> node]
                      /\ last' = Started("set_call", key, value)
                      /\ UNCHANGED <<array, sets>>
    /\ UNCHANGED ht_live

\* hashtable_node_find_by_key, lines 63-70, and lines 158-166 of hashtable_set
\* on its return: one test of current != NULL, then found == NULL, or found
\* == current with found->value = value and return 0, or current =
\* current->next.
FindLoop ==
    /\ frame.pc = "find"
    /\ IF frame.current = NULL
       THEN /\ frame' = [frame EXCEPT !.pc = "insert"]
            /\ UNCHANGED <<heap, sets, last>>
       ELSE IF strncmp_eq(heap[frame.current].key, frame.key, 1, HASHTABLE_KEY_SIZE)
            THEN /\ heap' = [heap EXCEPT ![frame.current].value = frame.value]
                 /\ Return("set", 0)
            ELSE /\ frame' = [frame EXCEPT !.current = heap[frame.current].next]
                 /\ UNCHANGED <<heap, sets, last>>
    /\ UNCHANGED <<array, allocated, ht_live>>

\* hashtable_node_insert(ht->array[hash], node), lines 48-52: the store into
\* parent->next and the return, or current = parent->next.
InsertEnter ==
    /\ frame.pc = "insert"
    /\ LET parent == array[frame.hash] IN
         IF heap[parent].next = NULL
         THEN /\ heap' = [heap EXCEPT ![parent].next = frame.node]
              /\ Return("set", 0)
         ELSE /\ frame' = [frame EXCEPT !.pc = "insert_loop",
                                        !.current = heap[parent].next]
              /\ UNCHANGED <<heap, sets, last>>
    /\ UNCHANGED <<array, allocated, ht_live>>

\* hashtable_node_insert, lines 53-55: one test of current->next != NULL, then
\* current = current->next, or the two stores and the return.
InsertLoop ==
    /\ frame.pc = "insert_loop"
    /\ IF heap[frame.current].next # NULL
       THEN /\ frame' = [frame EXCEPT !.current = heap[frame.current].next]
            /\ UNCHANGED <<heap, sets, last>>
       ELSE /\ heap' = insert_store(heap, frame.current, frame.node)
            /\ Return("set", 0)
    /\ UNCHANGED <<array, allocated, ht_live>>

StepSet == \E key \in StepKeys, value \in ChainValues : StepSetCall(key, value)
StepGet == \E key \in StepGetKeys : StepGetCall(key)

\* A call in progress executes its next statement.
Running == GetLoop \/ FindLoop \/ InsertEnter \/ InsertLoop

NextSteps == StepSet \/ StepGet \/ GetLoop \/ FindLoop \/ InsertEnter \/ InsertLoop

\* The program is one thread: a call that has started keeps executing.
SpecSteps == Init /\ [][NextSteps]_vars /\ WF_vars(Running)

TypeOK ==
    /\ DOMAIN heap \subseteq Addr
    /\ allocated \subseteq DOMAIN heap
    /\ \A i \in DOMAIN array : array[i] \in {NULL} \cup DOMAIN heap

(***************************************************************************)
(* Vocabulary of the properties.                                           *)
(***************************************************************************)
\* The addresses of the nodes of the chain that starts at address a, in order.
RECURSIVE Chain(_, _)
Chain(h, a) == IF a = NULL THEN <<>> ELSE <<a>> \o Chain(h, h[a].next)

\* The chain of the bucket key hashes to.
BucketChain(arr, h, key) == Chain(h, arr[hash_of[key]])

Range(s) == {s[i] : i \in DOMAIN s}

\* Every node that can be reached from some bucket head.
Linked(arr, h) == UNION {Range(Chain(h, arr[i])) : i \in DOMAIN arr}

\* The keys that some hashtable_set call that returned 0 was given.
KeysSet == {sets[i][1] : i \in DOMAIN sets}

\* This step is a hashtable_set call that returned 0.
SetReturned0 == Len(sets') = Len(sets) + 1

(***************************************************************************)
(* C1 - Round trip.  Right after a hashtable_set(t, k, v) that returned 0, *)
(* with k shorter than HASHTABLE_KEY_SIZE, hashtable_get(t, k) returns v,  *)
(* whatever calls built the table before.                                  *)
(***************************************************************************)
C1_RoundTrip ==
    (last.op = "set" /\ last.ret = 0 /\ Len(last.key) < HASHTABLE_KEY_SIZE)
        => hashtable_get(array, heap, last.key) = last.value

\* A short key has been set to a non-zero value in a bucket whose head node
\* holds another key, and the key had been set before.
C1_Witness ==
    /\ last.op = "set" /\ last.ret = 0
    /\ Len(last.key) < HASHTABLE_KEY_SIZE
    /\ last.value # 0
    /\ Len(BucketChain(array, heap, last.key)) >= 2
    /\ heap[array[calculate_hash(last.key)]].key # strncpy(last.key, HASHTABLE_KEY_SIZE)
    /\ \E i \in 1..(Len(sets) - 1) : sets[i][1] = last.key

(***************************************************************************)
(* C2 - Overwrite.  For keys of any length: when hashtable_set(t, k, v2)   *)
(* directly follows hashtable_set(t, k, v1), hashtable_get(t, k) returns   *)
(* v2 and the chain of k's bucket is as long as after the first call.      *)
(***************************************************************************)
C2_Overwrite ==
    [][(/\ last.op = "set" /\ last.ret = 0
        /\ SetReturned0
        /\ last'.key = last.key)
       => (/\ hashtable_get(array', heap', last'.key) = last'.value
           /\ Len(BucketChain(array', heap', last'.key))
                = Len(BucketChain(array, heap, last.key)))]_vars

(***************************************************************************)
(* C3 - Absence default.  hashtable_get(t, k) returns 0 for every key k    *)
(* that no hashtable_set call was given.  (A call that returns -1 leaves   *)
(* the table as it was, C6, so the calls that returned 0 are the ones that *)
(* count.)                                                                 *)
(***************************************************************************)
C3_AbsenceDefault ==
    \A k \in GetKeys \cup MainGetKeys :
        k \notin KeysSet => hashtable_get(array, heap, k) = 0

(***************************************************************************)
(* C4 - Destroy releases all memory.  After hashtable_destroy(t) neither   *)
(* the hashtable_t block nor any node hashtable_set created is allocated.  *)
(***************************************************************************)
C4_DestroyReleasesAll ==
    last.op = "destroy" => (~ht_live /\ allocated = {})

(***************************************************************************)
(* C5 - Allocation per set.  A hashtable_set call that returns 0 allocates *)
(* exactly one node when no node of the table holds the key and none when  *)
(* one does, and afterwards every allocated node is reachable from some    *)
(* bucket.                                                                 *)
(***************************************************************************)
KeyPresent(arr, h, key) ==
    \E a \in Range(BucketChain(arr, h, key)) :
        h[a].key = strncpy(key, HASHTABLE_KEY_SIZE)

C5_AllocationPerSet ==
    [][SetReturned0
       => (/\ Cardinality(allocated' \ allocated)
                = (IF KeyPresent(array, heap, last'.key) THEN 0 ELSE 1)
           /\ allocated' \subseteq Linked(array', heap'))]_vars

(***************************************************************************)
(* C6 - A failed set leaves the table unmodified.  When hashtable_set      *)
(* returns -1, every bucket head and every node (link, key, value) is what *)
(* it was before the call, and so is the result of hashtable_get, which    *)
(* reads nothing else (stated for the key of the failed call).             *)
(***************************************************************************)
C6_FailedSetUnmodified ==
    [][(last'.op = "set" /\ last'.ret = 0 - 1)
       => (/\ array' = array
           /\ heap' = heap
           /\ allocated' = allocated
           /\ hashtable_get(array', heap', last'.key)
                = hashtable_get(array, heap, last'.key))]_vars

\* hashtable_set has returned -1 for a key whose bucket holds a chain of two
\* nodes.
C6_Witness ==
    /\ last.op = "set" /\ last.ret = 0 - 1
    /\ Len(BucketChain(array, heap, last.key)) >= 2
    /\ sets # <<>>

(***************************************************************************)
(* C7 - Reference scenario.  From the empty table, after                   *)
(* hashtable_set("eric", 111), hashtable_set("erhd", 222) and              *)
(* hashtable_set("john", 333), where "eric" and "erhd" share a bucket,     *)
(* hashtable_get returns 111 for "eric", 222 for "erhd", 333 for "john"    *)
(* and 0 for "missing".                                                    *)
(***************************************************************************)
MainCalls == <<<<Key_eric, 111>>, <<Key_erhd, 222>>, <<Key_john, 333>>>>

C7_ReferenceScenario ==
    sets = MainCalls
        => (/\ calculate_hash(Key_eric) = calculate_hash(Key_erhd)
            /\ hashtable_get(array, heap, Key_eric) = 111
            /\ hashtable_get(array, heap, Key_erhd) = 222
            /\ hashtable_get(array, heap, Key_john) = 333
            /\ hashtable_get(array, heap, Key_missing) = 0
            /\ (last.op = "get" =>
                  last.ret = (CASE last.key = Key_eric -> 111
                                [] last.key = Key_erhd -> 222
                                [] last.key = Key_john -> 333
                                [] OTHER -> 0)))

\* After the three calls of main(), hashtable_get has been called for "erhd",
\* the second node of bucket 19.
C7_Witness ==
    /\ sets = MainCalls
    /\ last.op = "get" /\ last.key = Key_erhd /\ last.ret = 222
    /\ Len(BucketChain(array, heap, Key_erhd)) = 2

(***************************************************************************)
(* C8 - Hash determinism.  calculate_hash(k) is the sum of the first       *)
(* min(len(k), HASHTABLE_KEY_SIZE) bytes of k, modulo HASHTABLE_NODE_COUNT,*)
(* so two keys whose first bytes are permutations of each other get the    *)
(* same bucket index.  Stated of the key of the last hashtable_set or      *)
(* hashtable_get call.                                                     *)
(***************************************************************************)
\* The first min(len(key), HASHTABLE_KEY_SIZE) bytes of key.
FirstBytes(key) == SubSeq(key, 1, Min(Len(key), HASHTABLE_KEY_SIZE))

RECURSIVE SumSeq(_)
SumSeq(s) == IF s = <<>> THEN 0 ELSE Head(s) + SumSeq(Tail(s))

Occurrences(s, c) == Cardinality({i \in DOMAIN s : s[i] = c})

IsPermutation(s, t) ==
    /\ Len(s) = Len(t)
    /\ \A c \in Range(s) \cup Range(t) : Occurrences(s, c) = Occurrences(t, c)

C8_HashDeterminism ==
    last.op \in {"set", "get"}
        => (/\ calculate_hash(last.key)
                 = SumSeq(FirstBytes(last.key)) % HASHTABLE_NODE_COUNT
            /\ \A k \in AllKeys :
                 IsPermutation(FirstBytes(k), FirstBytes(last.key))
                     => calculate_hash(k) = calculate_hash(last.key))

\* hashtable_get has been called with a key longer than HASHTABLE_KEY_SIZE
\* while the bucket it hashes to holds the two anagrams "eg" and "ge".
C8_Witness ==
    /\ last.op = "get" /\ last.key = Key_a33
    /\ {Key_eg, Key_ge} \subseteq KeysSet
    /\ IsPermutation(Key_eg, Key_ge) /\ Key_eg # Key_ge
    /\ Len(BucketChain(array, heap, Key_a33)) >= 2

(***************************************************************************)
(* C9 - Lookup via get rejects oversized keys.  For a key of               *)
(* HASHTABLE_KEY_SIZE or more bytes hashtable_get returns 0, also when     *)
(* such a key has been set before.                                         *)
(***************************************************************************)
C9_GetRejectsOversized ==
    (last.op = "get" /\ Len(last.key) >= HASHTABLE_KEY_SIZE) => last.ret = 0

(***************************************************************************)
(* C10 - No duplicate keys.  No two nodes of one bucket chain hold the     *)
(* same HASHTABLE_KEY_SIZE key bytes, whatever keys hashtable_set was      *)
(* given.                                                                  *)
(***************************************************************************)
C10_NoDuplicateKeys ==
    \A i \in DOMAIN array :
        LET c == Chain(heap, array[i]) IN
        \A m, n \in DOMAIN c : m # n => heap[c[m]].key # heap[c[n]].key

(***************************************************************************)
(* C11 - Bucket addressing.  In every reachable table, for every slot i    *)
(* and every node reachable from array[i] through next links, the hash of  *)
(* the key stored in the node is i.                                        *)
(***************************************************************************)
\* The C string held by a char[HASHTABLE_KEY_SIZE] field: its bytes up to the
\* first terminator, all of them when there is none.
RECURSIVE FieldLen(_, _)
FieldLen(field, i) ==
    IF i > Len(field) \/ field[i] = 0 THEN i - 1 ELSE FieldLen(field, i + 1)

KeyString(field) == SubSeq(field, 1, FieldLen(field, 1))

C11_BucketAddressing ==
    \A i \in DOMAIN array :
        \A a \in Range(Chain(heap, array[i])) :
            calculate_hash(KeyString(heap[a].key)) = i

\* One bucket holds a chain of a short key and a key of HASHTABLE_KEY_SIZE
\* bytes, the bucket of Key_a31 holds a node as well.
C11_Witness ==
    /\ Len(BucketChain(array, heap, Key_a32)) >= 2
    /\ \E a \in Range(BucketChain(array, heap, Key_a32)) :
         FieldLen(heap[a].key, 1) = HASHTABLE_KEY_SIZE
    /\ \E a \in Range(BucketChain(array, heap, Key_a32)) :
         FieldLen(heap[a].key, 1) < HASHTABLE_KEY_SIZE
    /\ array[hash_of[Key_a31]] # NULL

(***************************************************************************)
(* C12 - Chain integrity.  After n hashtable_set calls that returned 0, on *)
(* n pairwise distinct keys shorter than HASHTABLE_KEY_SIZE that all hash  *)
(* to the same bucket, the chain of that bucket has exactly n nodes, the   *)
(* i-th holding the i-th key set, each linked to the next, the last one's  *)
(* next being NULL.                                                        *)
(***************************************************************************)
\* The calls that returned 0 so far were given pairwise distinct short keys
\* of one bucket.
DistinctCollidingSets ==
    /\ sets # <<>>
    /\ \A i \in DOMAIN sets :
         /\ Len(sets[i][1]) < HASHTABLE_KEY_SIZE
         /\ hash_of[sets[i][1]] = hash_of[sets[1][1]]
    /\ \A i, j \in DOMAIN sets : i # j => sets[i][1] # sets[j][1]

C12_ChainIntegrity ==
    DistinctCollidingSets
        => LET n == Len(sets)
               c == BucketChain(array, heap, sets[1][1])
           IN  /\ Len(c) = n
               /\ \A i \in 1..n :
                    /\ heap[c[i]].key = strncpy(sets[i][1], HASHTABLE_KEY_SIZE)
                    /\ heap[c[i]].next = (IF i < n THEN c[i + 1] ELSE NULL)
               /\ \A i, j \in 1..n : i # j => c[i] # c[j]

\* Four distinct short keys of one bucket have been set: the last call
\* walked past the second node to the third before it linked the fourth.
C12_Witness ==
    /\ DistinctCollidingSets
    /\ Len(sets) = 4
    /\ last.op = "set" /\ last.ret = 0

(***************************************************************************)
(* C13 - Stored key is truncated and terminated.  The key field of a node  *)
(* holds the first min(len(key), HASHTABLE_KEY_SIZE - 1) bytes of the key  *)
(* it was created for, then a terminator, so that no stored key is longer  *)
(* than HASHTABLE_KEY_SIZE - 1; hence two distinct keys of                 *)
(* HASHTABLE_KEY_SIZE or more bytes with the same first                    *)
(* HASHTABLE_KEY_SIZE - 1 bytes are stored under the same key and          *)
(* hashtable_set treats the second as a key already present.               *)
(***************************************************************************)
\* What the claim says hashtable_node_create stores for key.
TruncatedKey(key) ==
    [i \in 1..HASHTABLE_KEY_SIZE |->
        IF i <= Min(Len(key), HASHTABLE_KEY_SIZE - 1) THEN key[i] ELSE 0]

C13_StoredKeyTruncated ==
    /\ \A a \in DOMAIN heap :
         /\ heap[a].key = TruncatedKey(sets[a][1])
         /\ FieldLen(heap[a].key, 1) <= HASHTABLE_KEY_SIZE - 1
    /\ \A i, j \in DOMAIN sets :
         (/\ i < j
          /\ sets[i][1] # sets[j][1]
          /\ Len(sets[i][1]) >= HASHTABLE_KEY_SIZE
          /\ Len(sets[j][1]) >= HASHTABLE_KEY_SIZE
          /\ SubSeq(sets[i][1], 1, HASHTABLE_KEY_SIZE - 1)
               = SubSeq(sets[j][1], 1, HASHTABLE_KEY_SIZE - 1))
         => (heap[i].key = heap[j].key /\ j \notin Linked(array, heap))

(***************************************************************************)
(* C14 - find refuses oversized keys.  For a key of HASHTABLE_KEY_SIZE or  *)
(* more bytes hashtable_node_find_by_key returns NULL for every chain,     *)
(* also for a chain with a node whose key bytes are the first              *)
(* HASHTABLE_KEY_SIZE bytes of the key; so a hashtable_set of such a key   *)
(* never overwrites: the node it created ends the chain of the bucket.     *)
(***************************************************************************)
C14_FindRefusesOversized ==
    /\ \A k \in AllKeys :
         Len(k) >= HASHTABLE_KEY_SIZE
             => \A i \in DOMAIN array :
                    hashtable_node_find_by_key(heap, array[i], k) = NULL
    /\ (last.op = "set" /\ last.ret = 0 /\ Len(last.key) >= HASHTABLE_KEY_SIZE)
         => LET c == BucketChain(array, heap, last.key)
            IN  c # <<>> /\ c[Len(c)] = Len(sets)

\* hashtable_set has been called with a key of HASHTABLE_KEY_SIZE bytes whose
\* bucket already held a node with exactly these key bytes.
C14_Witness ==
    /\ last.op = "set" /\ last.ret = 0
    /\ Len(last.key) >= HASHTABLE_KEY_SIZE
    /\ \E a \in Range(BucketChain(array, heap, last.key)) :
         /\ a # Len(sets)
         /\ heap[a].key = strncpy(last.key, HASHTABLE_KEY_SIZE)

(***************************************************************************)
(* C15 - Key independence.  A hashtable_set(t, k, v) that returns 0, k     *)
(* shorter than HASHTABLE_KEY_SIZE, does not change hashtable_get(t, k')   *)
(* for any other key k' shorter than HASHTABLE_KEY_SIZE: every other       *)
(* bucket head and every node outside the chain of k's bucket is what it   *)
(* was, and in k's bucket the nodes that were there keep their order and   *)
(* their key, and their value unless they hold k.                          *)
(***************************************************************************)
C15_KeyIndependence ==
    [][(SetReturned0 /\ Len(last'.key) < HASHTABLE_KEY_SIZE)
       => LET k == last'.key
              c == BucketChain(array, heap, k)
              c2 == BucketChain(array', heap', k)
          IN  /\ \A k2 \in GetKeys \ {k} :
                   Len(k2) < HASHTABLE_KEY_SIZE
                       => hashtable_get(array', heap', k2)
                            = hashtable_get(array, heap, k2)
              /\ \A i \in DOMAIN array : i # hash_of[k] => array'[i] = array[i]
              /\ \A a \in DOMAIN heap \ Range(c) : heap'[a] = heap[a]
              /\ Len(c2) >= Len(c) /\ SubSeq(c2, 1, Len(c)) = c
              /\ \A a \in Range(c) :
                   /\ heap'[a].key = heap[a].key
                   /\ heap[a].key # strncpy(k, HASHTABLE_KEY_SIZE)
                        => heap'[a].value = heap[a].value]_vars

\* A short key has been set in a bucket whose chain holds two other keys
\* with different values, one of them of HASHTABLE_KEY_SIZE bytes.
C15_Witness ==
    /\ last.op = "set" /\ last.ret = 0
    /\ Len(last.key) < HASHTABLE_KEY_SIZE
    /\ LET c == BucketChain(array, heap, last.key)
       IN  /\ Len(c) = 3
           /\ \E a, b \in Range(c) :
                /\ heap[a].value # heap[b].value
                /\ heap[a].key # strncpy(last.key, HASHTABLE_KEY_SIZE)
                /\ heap[b].key # strncpy(last.key, HASHTABLE_KEY_SIZE)
                /\ FieldLen(heap[b].key, 1) = HASHTABLE_KEY_SIZE

(***************************************************************************)
(* C16 - Bucket index in range.  For every key, its bytes ranging over all *)
(* values of char (bytes of 0x80 and more included, negative where char is *)
(* signed), the index calculate_hash returns, which hashtable_get and      *)
(* hashtable_set use to subscript array[], is in                           *)
(* 0..HASHTABLE_NODE_COUNT - 1.                                            *)
(***************************************************************************)
C16_IndexInRange ==
    last.op = "hash" => last.ret \in 0..(HASHTABLE_NODE_COUNT - 1)

(***************************************************************************)
(* C17 - Chains are acyclic and terminated.  In every reachable table,     *)
(* following next from any bucket head reaches NULL after finitely many    *)
(* steps, no node is visited twice, and no node is reachable from two      *)
(* bucket heads.                                                           *)
(***************************************************************************)
\* The pointer reached from a after n next links, NULL once NULL is reached.
RECURSIVE After(_, _, _)
After(h, a, n) ==
    IF a = NULL \/ n = 0 THEN a ELSE After(h, h[a].next, n - 1)

\* The nodes visited by following next from a for up to n steps, a first.
RECURSIVE Visited(_, _, _)
Visited(h, a, n) ==
    IF a = NULL \/ n = 0 THEN <<>> ELSE <<a>> \o Visited(h, h[a].next, n - 1)

C17_ChainsAcyclic ==
    LET n == Cardinality(DOMAIN heap)
        used == {i \in DOMAIN array : array[i] # NULL}
    IN  /\ \A i \in used :
              LET v == Visited(heap, array[i], n + 1)
              IN  /\ After(heap, array[i], n) = NULL
                  /\ \A x, y \in DOMAIN v : x # y => v[x] # v[y]
        /\ \A i, j \in used :
              i # j => Range(Visited(heap, array[i], n))
                         \cap Range(Visited(heap, array[j], n)) = {}

\* Two buckets hold nodes, and the last call appended a node to a chain.
C17_Witness ==
    /\ Cardinality({i \in DOMAIN array : array[i] # NULL}) = 2
    /\ last.op = "set" /\ last.ret = 0
    /\ Len(BucketChain(array, heap, last.key)) >= 2
    /\ Cardinality(Linked(array, heap)) = 3

(***************************************************************************)
(* C19 - insertAfter forces the new node's link to none.  For every        *)
(* non-empty terminated chain and every new node, also one whose next is   *)
(* not NULL on entry, after hashtable_node_insert(head, newNode) the new   *)
(* node is the last node of the chain and its next is NULL, both when      *)
(* head.next was NULL and when it was not.                                 *)
(***************************************************************************)
C19_InsertForcesNull ==
    last.op = "insert"
        => LET head == array[hash_of[last.key]]
               n == Cardinality(DOMAIN heap)
               v == Visited(heap, head, n)
           IN  /\ After(heap, head, n) = NULL
               /\ v # <<>> /\ v[Len(v)] = last.ret
               /\ heap[last.ret].next = NULL

(***************************************************************************)
(* C18 - Termination.  On every table state that hashtable_set calls can   *)
(* reach, every call of hashtable_get and of hashtable_set that has        *)
(* started, the chain scans of hashtable_node_find_by_key and              *)
(* hashtable_node_insert included, eventually returns.                     *)
(***************************************************************************)
C18_Termination == (frame.pc # "idle") ~> (frame.pc = "idle")

\* A hashtable_set has returned whose find scan and whose insert scan both
\* went along a chain of three nodes.
C18_Witness ==
    /\ frame.pc = "idle"
    /\ last.op = "set" /\ last.ret = 0
    /\ strnlen(last.key, HASHTABLE_KEY_SIZE) < HASHTABLE_KEY_SIZE
    /\ LET c == BucketChain(array, heap, last.key) IN
         /\ Len(c) >= 4
         /\ c[Len(c)] = Len(sets)

====
